---- MODULE Spec2Model ----
(***************************************************************************)
(* Ollama-OCR: the batch orchestrator (OCRProcessor.process_batch and      *)
(* process_image, src/src/ollama_ocr/ocr_processor.py) and the acquisition *)
(* orchestrator (ImageProcessor.process_urls and _fetch_image,             *)
(* src/src/ollama_ocr/image_processor.py).  The functions that keep no     *)
(* state (_detect_mime_type, _sanitize_filename, the choice of the prompt) *)
(* are also called on their own, over sets of arguments.                   *)
(*                                                                         *)
(* A path or URL is a sequence of tokens: "/" is a token of its own, an    *)
(* extension (".png") is one token, every other token is a run of name     *)
(* characters.  "http://h/a.png" is <<"http:","/","/","h","/","a",".png">>.*)
(***************************************************************************)
EXTENDS Integers, Sequences, FiniteSets, TLC

VARIABLES
  \* ---- OCRProcessor ----
  bpc,          \* where the caller is: "new", "constructed", "running", "done", "raised"
  max_workers,  \* self.max_workers
  input_path,   \* process_batch argument: [isList, refs]
  preprocess,   \* process_batch argument
  format_type,  \* process_batch argument
  image_paths,  \* the resolved unit list
  unit,         \* unit[i]: the process_image call of future i (its locals and position)
  collected,    \* futures the as_completed loop has handled
  results,      \* results dict
  errors,       \* errors dict
  report,       \* the returned dictionary
  fs,           \* the file system: path -> content
  created,      \* history: created[i] = the paths unit i has written
  served,       \* history: served[i] = the responses the endpoint gave unit i, in order
  \* ---- ImageProcessor ----
  ipc,          \* where the caller is: "new", "constructed", "ctor_raised", "running", "done"
  ip_max_workers, \* self.max_workers
  timeout,      \* self.timeout
  urls,         \* process_urls argument
  fetch,        \* fetch[i]: the _fetch_image call of future i
  handled,      \* futures the as_completed loop has handled
  url_results,  \* the results dict of process_urls
  temp_dir,     \* the files of self.temp_dir: path -> content
  wrote,        \* history: wrote[i] = what the loop did for future i
  keep_temp,    \* self.keep_temp
  \* ---- one call of a function that keeps no state ----
  fn,           \* the function called, "none" when there is no such call
  fn_arg,       \* its arguments
  fn_ret        \* [done, val]: whether it has returned, and its return value

bvars == <<bpc, max_workers, input_path, preprocess, format_type,
           image_paths, unit, collected, results, errors, report, fs,
           created, served>>

ivars == <<ipc, ip_max_workers, timeout, urls, fetch, handled, url_results,
           temp_dir, wrote, keep_temp>>

pvars == <<fn, fn_arg, fn_ret>>

vars == <<bvars, ivars, pvars>>

(***************************************************************************)
(* Bounds                                                                  *)
(***************************************************************************)
MaxWorkers == 2
MaxPages == 2

(***************************************************************************)
(* Strings as token sequences                                              *)
(***************************************************************************)
NoneVal == "None"

\* str.lower() on one token
Lower(tok) ==
  CASE tok = ".PDF" -> ".pdf"
    [] tok = ".PNG" -> ".png"
    [] OTHER -> tok

Exts == {".png", ".jpg", ".jpeg", ".pdf", ".tiff", ".txt", ".bin", ".PDF", ".PNG"}

\* OCRProcessor._is_url
IsUrl(path) ==
  /\ Len(path) >= 3
  /\ SubSeq(path, 1, 3) \in {<<"http:", "/", "/">>, <<"https:", "/", "/">>}

\* str.endswith(tok)
EndsWith(path, tok) == Len(path) > 0 /\ path[Len(path)] = tok

\* str.lower().endswith(tok)
LowerEndsWith(path, tok) == Len(path) > 0 /\ Lower(path[Len(path)]) = tok

\* os.path.splitext(p)[1]: the extension of the last component, "" when none
PathExt(path) ==
  IF /\ Len(path) >= 2
     /\ path[Len(path)] \in Exts
     /\ path[Len(path) - 1] # "/"
  THEN path[Len(path)] ELSE ""

\* str.split("/")
RECURSIVE SplitComps(_)
SplitComps(p) ==
  IF p = <<>> THEN << <<>> >>
  ELSE LET rest == SplitComps(Tail(p)) IN
       IF Head(p) = "/" THEN << <<>> >> \o rest
       ELSE << <<Head(p)>> \o Head(rest) >> \o Tail(rest)

RECURSIVE JoinComps(_)
JoinComps(cs) ==
  IF cs = <<>> THEN <<>>
  ELSE IF Len(cs) = 1 THEN Head(cs)
  ELSE Head(cs) \o <<"/">> \o JoinComps(Tail(cs))

\* str(Path(p)): empty and "." components are dropped, the leading "/" is kept
PathStr(p) ==
  LET kept == SelectSeq(SplitComps(p), LAMBDA c : c # <<>> /\ c # <<".">>)
      abs  == p # <<>> /\ p[1] = "/"
  IN IF abs THEN <<"/">> \o JoinComps(kept)
     ELSE IF kept = <<>> THEN <<".">>
     ELSE JoinComps(kept)

(***************************************************************************)
(* The world: directories, the files present before the call, references   *)
(***************************************************************************)
URL_A      == <<"http:", "/", "/", "h", "/", "a", ".png">>
URL_B      == <<"http:", "/", "/", "h", "/", "b", ".pdf">>
FILE_A     == <<"a", ".png">>
FILE_A_DOT == <<".", "/", "a", ".png">>
FILE_D     == <<"d", ".pdf">>
MISSING    == <<"/", "missing", "/", "path", ".jpg">>
DIR        == <<"dir">>
DIR_P      == <<"dir", "/", "p", ".png">>
DIR_N      == <<"dir", "/", "n", ".txt">>
DIR_SUB    == <<"dir", "/", "sub">>
DIR_SUB_Q  == <<"dir", "/", "sub", "/", "q", ".jpg">>

Dirs == {DIR, DIR_SUB}

\* a file of the caller that is already there, next to a.png
FILE_A_KEPT == <<"a", ".png", "_preprocessed", ".jpg">>

InitFs == (FILE_A :> "img") @@ (FILE_D :> "pdf") @@ (DIR_P :> "img")
          @@ (DIR_N :> "txt") @@ (DIR_SUB_Q :> "img") @@ (FILE_A_KEPT :> "kept")

\* Path.is_dir(), Path.exists(), Path.is_file(), os.path.exists
IsDir(p) == PathStr(p) \in Dirs
IsFile(f, p) == PathStr(p) \in DOMAIN f
Exists(f, p) == IsFile(f, p) \/ IsDir(p)

(***************************************************************************)
(* Maps (Python dicts) and the file system                                 *)
(***************************************************************************)
EmptyMap == [x \in {} |-> NoneVal]

Put(m, k, v) == [x \in (DOMAIN m) \cup {k} |-> IF x = k THEN v ELSE m[x]]

\* os.remove of every path of S that exists
RemoveAll(f, S) == [x \in (DOMAIN f) \ S |-> f[x]]

SeqSet(s) == {s[k] : k \in 1..Len(s)}

(***************************************************************************)
(* process_batch: resolution of the input specification                    *)
(***************************************************************************)
GlobExts == <<".png", ".jpg", ".jpeg", ".pdf", ".tiff">>

\* base_path.glob(pattern + ext), filtered by p.is_file()
GlobMatches(f, base, ext, rec) ==
  {p \in DOMAIN f :
     /\ Len(p) > Len(base) + 1
     /\ SubSeq(p, 1, Len(base) + 1) = base \o <<"/">>
     /\ p[Len(p)] = ext
     /\ (rec \/ \A k \in (Len(base) + 2)..Len(p) : p[k] # "/")}

\* the orders in which the directory scan may list a set of files
Orderings(S) ==
  {s \in [1..Cardinality(S) -> S] :
     \A a, b \in 1..Cardinality(S) : a # b => s[a] # s[b]}

RECURSIVE ExpandDir(_, _, _, _)
ExpandDir(f, base, rec, k) ==
  IF k > Len(GlobExts) THEN {<<>>}
  ELSE {a \o b : a \in Orderings(GlobMatches(f, base, GlobExts[k], rec)),
                 b \in ExpandDir(f, base, rec, k + 1)}

\* one reference: lines 377-389 (a str input) and 392-404 (an element of a list)
\* variant of ResolveOne for C4: the existence test of lines 388 and 403 left out
ResolveOneMut(f, path, rec) ==
  IF IsUrl(path) THEN {<<path>>}
  ELSE IF IsDir(path) THEN ExpandDir(f, PathStr(path), rec, 1)
  ELSE {<<PathStr(path)>>}
ResolveOne(f, path, rec) ==
  IF IsUrl(path) THEN {<<path>>}
  ELSE IF IsDir(path) THEN ExpandDir(f, PathStr(path), rec, 1)
  ELSE IF Exists(f, path) THEN {<<PathStr(path)>>}
  ELSE {<<>>}

RECURSIVE ResolveList(_, _, _)
ResolveList(f, refs, rec) ==
  IF refs = <<>> THEN {<<>>}
  ELSE {a \o b : a \in ResolveOne(f, Head(refs), rec),
                 b \in ResolveList(f, Tail(refs), rec)}

Resolve(f, inp, rec) ==
  IF inp.isList THEN ResolveList(f, inp.refs, rec)
  ELSE ResolveOne(f, inp.refs[1], rec)

(***************************************************************************)
(* What the outside world may answer                                       *)
(***************************************************************************)
\* Content-Type headers a remote host may send
ContentTypes == {"application/pdf", "image/png", "text/html"}

\* mimetypes.guess_extension
GuessExtension(ct) == IF ct = "image/png" THEN ".png" ELSE ""

IsImageType(ct) == ct \in {"image/png"}

\* texts the inference endpoint may put in the "response" field
Responses == {"not json", "{\"a\": 1}"}

\* json.dumps(json.loads(s), indent=2) for the texts that parse
JsonPretty == ("{\"a\": 1}" :> "{\n  \"a\": 1\n}")

JsonParses(s) == s \in DOMAIN JsonPretty

\* variant of FormatResult for C13: the text is never re-serialised
FormatResultMut(fmt, text) == text

\* lines 249-255 and 333-340: best-effort re-serialisation
FormatResult(fmt, text) ==
  IF fmt = "json" /\ JsonParses(text) THEN JsonPretty[text] ELSE text

\* _download_file lines 46-52: the suffix of the temporary file
DownloadExt(ct, url) ==
  IF ct = "application/pdf" THEN ".pdf"
  ELSE IF IsImageType(ct)
       THEN IF GuessExtension(ct) # "" THEN GuessExtension(ct)
            ELSE IF PathExt(url) # "" THEN PathExt(url) ELSE ".jpg"
  ELSE IF PathExt(url) # "" THEN PathExt(url) ELSE ".bin"

\* tempfile.NamedTemporaryFile: a name no other call gets
TmpPath(i, ext) == <<"/", "tmp", "/", "tmp" \o ToString(i), ext>>

DownloadContent(ct) ==
  CASE ct = "application/pdf" -> "pdf"
    [] ct = "image/png" -> "img"
    [] OTHER -> "txt"

(***************************************************************************)
(* OCRProcessor.__init__                                                   *)
(***************************************************************************)
WorkerCounts == 0..MaxWorkers

\* lines 17-29: every worker count is stored, none is rejected
OCRProcessor_init(mw) ==
  /\ bpc = "new"
  /\ bpc' = "constructed"
  /\ max_workers' = mw
  /\ UNCHANGED <<input_path, preprocess, format_type, image_paths,
                 unit, collected, results, errors, report, fs, created, served>>
  /\ UNCHANGED <<ivars, pvars>>

(***************************************************************************)
(* process_image, one step at a time                                       *)
(***************************************************************************)
NewUnit(path) ==
  [pc |-> "queued", image_path |-> path, local_path |-> <<>>,
   temp_files_to_cleanup |-> <<>>, pdf_image_paths |-> <<>>,
   image_pages |-> <<>>, page_count |-> 0, idx |-> 0, responses |-> <<>>,
   preprocessed_path |-> <<>>, image_base64 |-> NoneVal,
   ret |-> NoneVal, raised |-> FALSE, failed |-> FALSE]

Units == 1..Len(image_paths)

Running == {j \in Units : unit[j].pc \notin {"queued", "finished"}}

\* lines 341-342: the exception becomes the returned string
ErrorText(reason) == "Error processing image: " \o reason

\* an except clause that would hand back the text gathered so far
CaughtMut(u, reason) ==
  [u EXCEPT !.pc = "finally",
            !.ret = IF u.responses = <<>> THEN ErrorText(reason) ELSE u.responses[1],
            !.failed = TRUE]

Caught(u, reason) ==
  [u EXCEPT !.pc = "finally", !.ret = ErrorText(reason), !.failed = TRUE]

\* lines 234 and 328: requests.post is called without a timeout; when the
\* endpoint accepts the request and never answers, the call does not return
NoAnswer(u) == [u EXCEPT !.pc = "awaiting_response"]

\* what a step of process_image leaves alone
PI_Frame == UNCHANGED <<bpc, max_workers, input_path, preprocess, format_type,
                        image_paths, collected, results, errors, report, ivars, pvars>>

\* lines 144-155: a worker takes the next queued call; download, existence check
PI_Begin(i) ==
  /\ bpc = "running"
  /\ i \in Units
  /\ unit[i].pc = "queued"
  /\ \A j \in Units : j < i => unit[j].pc # "queued"
  /\ Cardinality(Running) < max_workers
  /\ LET u == unit[i]
         next(lp) == IF LowerEndsWith(lp, ".pdf") THEN "pdf_open" ELSE "img_pre"
     IN IF IsUrl(u.image_path)
        THEN \/ /\ unit' = [unit EXCEPT ![i] = Caught(u, "Failed to download")]
                /\ UNCHANGED <<fs, created>>
             \/ \E ct \in ContentTypes :
                  LET lp == TmpPath(i, DownloadExt(ct, u.image_path)) IN
                  /\ fs' = Put(fs, lp, DownloadContent(ct))
                  /\ created' = [created EXCEPT ![i] = @ \cup {lp}]
                  /\ unit' = [unit EXCEPT ![i] =
                       [u EXCEPT !.local_path = lp,
                                 !.temp_files_to_cleanup = <<lp>>,
                                 !.pc = next(lp)]]
        ELSE /\ UNCHANGED <<fs, created>>
             /\ unit' = [unit EXCEPT ![i] =
                  IF ~ (u.image_path \in DOMAIN fs \/ u.image_path \in Dirs)
                  THEN Caught(u, "File not found")
                  ELSE [u EXCEPT !.local_path = u.image_path,
                                 !.pc = next(u.image_path)]]
  /\ UNCHANGED served
  /\ PI_Frame

\* _pdf_to_images line 79
PagePath(pdf_path, page_num) == pdf_path \o <<"_page" \o ToString(page_num), ".png">>

\* _preprocess_image line 123
PreprocessedPath(image_path) == image_path \o <<"_preprocessed", ".jpg">>

\* str.endswith("_preprocessed.jpg")
IsPreprocessedName(path) ==
  Len(path) >= 2 /\ SubSeq(path, Len(path) - 1, Len(path)) = <<"_preprocessed", ".jpg">>

\* line 240: one page's segment
\* variant of PageSegment for C5: the label carries idx instead of idx + 1
PageSegmentMut(idx, res) == "Page " \o ToString(idx) \o ":\n" \o res
PageSegment(idx, res) == "Page " \o ToString(idx + 1) \o ":\n" \o res

\* line 248: "\n".join(responses)
RECURSIVE JoinLines(_)
JoinLines(rs) ==
  IF rs = <<>> THEN ""
  ELSE IF Len(rs) = 1 THEN rs[1]
  ELSE rs[1] \o "\n" \o JoinLines(Tail(rs))

\* line 240: responses.append(...)
AppendResponse(responses, idx, res) == Append(responses, PageSegment(idx, res))

\* lines 248-255: the value a PDF unit returns
PdfResult(fmt, responses) == FormatResult(fmt, JoinLines(responses))

\* lines 74-76 and 156-159: pymupdf.open; a document without pages returns at once
PI_PdfOpen(i) ==
  /\ bpc = "running"
  /\ i \in Units
  /\ unit[i].pc = "pdf_open"
  /\ LET u == unit[i] IN
       \/ unit' = [unit EXCEPT ![i] = Caught(u, "Could not convert PDF to images")]
       \/ \E n \in 0..MaxPages :
            unit' = [unit EXCEPT ![i] =
              IF n = 0
              THEN [u EXCEPT !.pc = "finally", !.ret = PdfResult(format_type, <<>>)]
              ELSE [u EXCEPT !.pc = "render", !.page_count = n]]
  /\ UNCHANGED <<fs, created, served>>
  /\ PI_Frame

\* lines 76-85 and 157: one iteration of the rendering loop; after the last page
\* the list is returned and joins temp_files_to_cleanup
PI_RenderPage(i) ==
  /\ bpc = "running"
  /\ i \in Units
  /\ unit[i].pc = "render"
  /\ LET u == unit[i]
         page_num == Len(u.pdf_image_paths)
         temp_path == PagePath(u.local_path, page_num)
         paths == Append(u.pdf_image_paths, temp_path)
     IN \/ /\ unit' = [unit EXCEPT ![i] = Caught(u, "Could not convert PDF to images")]
           /\ UNCHANGED <<fs, created>>
        \/ /\ fs' = Put(fs, temp_path, "page")
           /\ created' = [created EXCEPT ![i] = @ \cup {temp_path}]
           /\ unit' = [unit EXCEPT ![i] =
                IF Len(paths) = u.page_count
                THEN [u EXCEPT !.pdf_image_paths = paths,
                               !.image_pages = paths,
                               !.temp_files_to_cleanup = @ \o paths,
                               !.pc = "page_pre"]
                ELSE [u EXCEPT !.pdf_image_paths = paths]]
  /\ UNCHANGED served
  /\ PI_Frame

\* lines 162-168 (a page) and 258-265 (an image): _preprocess_image when asked
\* for, then _encode_image reads the file to send
PrepareStep(i, src, nextpc) ==
  LET u == unit[i]
      out == PreprocessedPath(src)
  IN IF ~ preprocess
     THEN /\ unit' = [unit EXCEPT ![i] =
                IF src \in DOMAIN fs
                THEN [u EXCEPT !.preprocessed_path = src,
                               !.image_base64 = fs[src], !.pc = nextpc]
                ELSE Caught(u, "No such file or directory")]
          /\ UNCHANGED <<fs, created>>
     ELSE \/ /\ unit' = [unit EXCEPT ![i] = Caught(u, "Could not read image")]
             /\ UNCHANGED <<fs, created>>
          \/ /\ src \in DOMAIN fs
             /\ fs' = Put(fs, out, "prep")
             /\ created' = [created EXCEPT ![i] = @ \cup {out}]
             /\ unit' = [unit EXCEPT ![i] =
                  [u EXCEPT !.preprocessed_path = out,
                            !.temp_files_to_cleanup = Append(@, out),
                            !.image_base64 = "prep",
                            !.pc = nextpc]]

PI_PagePrepare(i) ==
  /\ bpc = "running"
  /\ i \in Units
  /\ unit[i].pc = "page_pre"
  /\ PrepareStep(i, unit[i].image_pages[unit[i].idx + 1], "page_inf")
  /\ UNCHANGED served
  /\ PI_Frame

\* lines 226-246: the request for one page, its segment, the removal of the
\* page's files; after the last page lines 248-255
PI_PageInfer(i) ==
  /\ bpc = "running"
  /\ i \in Units
  /\ unit[i].pc = "page_inf"
  /\ LET u == unit[i]
         page_file == u.image_pages[u.idx + 1]
         rm1 == preprocess /\ IsPreprocessedName(u.preprocessed_path)
         f1 == IF rm1 THEN RemoveAll(fs, {u.preprocessed_path}) ELSE fs
         rm2 == EndsWith(page_file, ".png")
         f2 == IF rm2 THEN RemoveAll(f1, {page_file}) ELSE f1
     IN \/ /\ unit' = [unit EXCEPT ![i] = Caught(u, "HTTP error")]
           /\ UNCHANGED <<fs, served>>
        \/ /\ unit' = [unit EXCEPT ![i] = NoAnswer(u)]
           /\ UNCHANGED <<fs, served>>
        \/ \E res \in Responses :
             LET rs == AppendResponse(u.responses, u.idx, res) IN
             /\ served' = [served EXCEPT ![i] = Append(@, res)]
             /\ IF rm1 /\ u.preprocessed_path \notin DOMAIN fs
                THEN /\ fs' = fs
                     /\ unit' = [unit EXCEPT ![i] =
                          Caught([u EXCEPT !.responses = rs], "No such file or directory")]
                ELSE IF rm2 /\ page_file \notin DOMAIN f1
                THEN /\ fs' = f1
                     /\ unit' = [unit EXCEPT ![i] =
                          Caught([u EXCEPT !.responses = rs], "No such file or directory")]
                ELSE /\ fs' = f2
                     /\ unit' = [unit EXCEPT ![i] =
                          IF u.idx + 1 = Len(u.image_pages)
                          THEN [u EXCEPT !.responses = rs, !.idx = @ + 1,
                                         !.pc = "finally",
                                         !.ret = PdfResult(format_type, rs)]
                          ELSE [u EXCEPT !.responses = rs, !.idx = @ + 1,
                                         !.pc = "page_pre"]]
  /\ UNCHANGED created
  /\ PI_Frame

PI_ImgPrepare(i) ==
  /\ bpc = "running"
  /\ i \in Units
  /\ unit[i].pc = "img_pre"
  /\ PrepareStep(i, unit[i].local_path, "img_inf")
  /\ UNCHANGED served
  /\ PI_Frame

\* lines 321-340: the request for an image and the returned text
PI_ImgInfer(i) ==
  /\ bpc = "running"
  /\ i \in Units
  /\ unit[i].pc = "img_inf"
  /\ LET u == unit[i] IN
       \/ /\ unit' = [unit EXCEPT ![i] = Caught(u, "HTTP error")]
          /\ UNCHANGED served
       \/ /\ unit' = [unit EXCEPT ![i] = NoAnswer(u)]
          /\ UNCHANGED served
       \/ \E res \in Responses :
            /\ served' = [served EXCEPT ![i] = Append(@, res)]
            /\ unit' = [unit EXCEPT ![i] =
                 [u EXCEPT !.pc = "finally", !.ret = FormatResult(format_type, res)]]
  /\ UNCHANGED <<fs, created>>
  /\ PI_Frame

\* lines 343-349: the files of temp_files_to_cleanup that exist are removed
CleanupTargets(u) == SeqSet(u.temp_files_to_cleanup)

\* variant of PI_Finally for C21: the worker stores its result in the shared map
PI_FinallyMut(i) ==
  /\ bpc = "running"
  /\ i \in Units
  /\ unit[i].pc = "finally"
  /\ fs' = RemoveAll(fs, CleanupTargets(unit[i]))
  /\ unit' = [unit EXCEPT ![i].pc = "finished"]
  /\ results' = Put(results, image_paths[i], unit[i].ret)
  /\ UNCHANGED <<bpc, max_workers, input_path, preprocess, format_type,
                 image_paths, collected, errors, report, created, served,
                 ivars, pvars>>

PI_Finally(i) ==
  /\ bpc = "running"
  /\ i \in Units
  /\ unit[i].pc = "finally"
  /\ fs' = RemoveAll(fs, CleanupTargets(unit[i]))
  /\ unit' = [unit EXCEPT ![i].pc = "finished"]
  /\ UNCHANGED <<created, served>>
  /\ PI_Frame

(***************************************************************************)
(* process_batch                                                           *)
(***************************************************************************)
\* the input specifications: a single string or a list, over URLs, plain files
\* (one written "./a.png"), a missing path, a directory and a file inside it
Inputs ==
  {[isList |-> FALSE, refs |-> <<r>>] : r \in {URL_B, FILE_A_DOT, MISSING, DIR}}
  \cup {[isList |-> TRUE, refs |-> l] :
          l \in {<<>>,
                 <<URL_A, FILE_A_DOT, MISSING>>,
                 <<FILE_A_DOT, FILE_A>>,
                 <<FILE_D, FILE_D>>,
                 <<DIR, DIR_P>>}}

Formats == {"markdown", "json"}

\* lines 375-415: resolution, the pool (ThreadPoolExecutor rejects max_workers <= 0
\* with ValueError), and the submission of every unit
ProcessBatch_Start(inp, rec, pre, fmt) ==
  /\ bpc = "constructed"
  /\ input_path' = inp
  /\ preprocess' = pre
  /\ format_type' = fmt
  /\ \E paths \in Resolve(fs, inp, rec) :
       /\ image_paths' = paths
       /\ unit' = [i \in 1..Len(paths) |-> NewUnit(paths[i])]
       /\ created' = [i \in 1..Len(paths) |-> {}]
       /\ served' = [i \in 1..Len(paths) |-> <<>>]
  /\ results' = EmptyMap
  /\ errors' = EmptyMap
  /\ collected' = {}
  /\ bpc' = IF max_workers <= 0 THEN "raised" ELSE "running"
  /\ UNCHANGED <<max_workers, report, fs, ivars, pvars>>

\* lines 417-423: one future handed out by as_completed
Collect(i) ==
  /\ bpc = "running"
  /\ i \in Units \ collected
  /\ unit[i].pc = "finished"
  /\ collected' = collected \cup {i}
  /\ IF unit[i].raised
     THEN /\ errors' = Put(errors, image_paths[i], unit[i].ret)
          /\ UNCHANGED results
     ELSE /\ results' = Put(results, image_paths[i], unit[i].ret)
          /\ UNCHANGED errors
  /\ UNCHANGED <<bpc, max_workers, input_path, preprocess, format_type,
                 image_paths, unit, report, fs, created, served, ivars, pvars>>

\* lines 425-433
Statistics(paths, res, errs) ==
  [total |-> Len(paths), successful |-> Cardinality(DOMAIN res),
   failed |-> Cardinality(DOMAIN errs)]

Return ==
  /\ bpc = "running"
  /\ collected = Units
  /\ bpc' = "done"
  /\ report' = [results |-> results, errors |-> errors,
                statistics |-> Statistics(image_paths, results, errors)]
  /\ UNCHANGED <<max_workers, input_path, preprocess, format_type,
                 image_paths, unit, collected, results, errors, fs, created, served,
                 ivars, pvars>>

BatchInit ==
  /\ bpc = "new"
  /\ max_workers = NoneVal
  /\ input_path = [isList |-> TRUE, refs |-> <<>>]
  /\ preprocess = TRUE
  /\ format_type = "markdown"
  /\ image_paths = <<>>
  /\ unit = <<>>
  /\ collected = {}
  /\ results = EmptyMap
  /\ errors = EmptyMap
  /\ report = NoneVal
  /\ fs = InitFs
  /\ created = <<>>
  /\ served = <<>>

Next ==
  \/ \E mw \in WorkerCounts : OCRProcessor_init(mw)
  \/ \E inp \in Inputs, rec \in BOOLEAN, pre \in BOOLEAN, fmt \in Formats :
       ProcessBatch_Start(inp, rec, pre, fmt)
  \/ \E i \in Units : PI_Begin(i)
  \/ \E i \in Units : PI_PdfOpen(i)
  \/ \E i \in Units : PI_RenderPage(i)
  \/ \E i \in Units : PI_PagePrepare(i)
  \/ \E i \in Units : PI_PageInfer(i)
  \/ \E i \in Units : PI_ImgPrepare(i)
  \/ \E i \in Units : PI_ImgInfer(i)
  \/ \E i \in Units : PI_Finally(i)
  \/ \E i \in Units : Collect(i)
  \/ Return


(***************************************************************************)
(* Claims about process_batch and process_image                            *)
(***************************************************************************)
InputRefs == SeqSet(input_path.refs)

UnitIds == SeqSet(image_paths)

Started == bpc \in {"running", "done"}

\* C1: in the returned report successful + failed = total, and every resolved
\* unit id is in exactly one of results and errors.
C1_ReportPartition ==
  bpc = "done" =>
    /\ report.statistics.successful + report.statistics.failed
         = report.statistics.total
    /\ \A id \in UnitIds :
         (id \in DOMAIN report.results) # (id \in DOMAIN report.errors)

\* C2: a unit whose processing failed is an entry of errors, is counted in
\* statistics.failed and has no entry in results.
C2_FailuresAreErrors ==
  bpc = "done" =>
    \A i \in Units :
      unit[i].failed =>
        /\ image_paths[i] \in DOMAIN report.errors
        /\ image_paths[i] \notin DOMAIN report.results
        /\ report.statistics.failed >= 1

\* C3: process_batch never raises; what it returns holds results, errors and
\* statistics.
C3_NeverRaises ==
  /\ bpc # "raised"
  /\ bpc = "done" => DOMAIN report = {"results", "errors", "statistics"}

\* a reference that is neither a URL nor an existing path when the call is made
IsMissingRef(r) == ~ IsUrl(r) /\ ~ Exists(InitFs, r)

IsPlainFileRef(r) == ~ IsUrl(r) /\ ~ IsDir(r) /\ IsFile(InitFs, r)

\* a path written without "." and without empty components
IsNormalised(r) ==
  \A k \in 1..Len(r) :
    /\ r[k] = "." => (k < Len(r) /\ r[k + 1] # "/")
    /\ (r[k] = "/" /\ k > 1) => (k < Len(r) /\ r[k + 1] # "/")

MissingRefsDropped ==
  \A r \in InputRefs :
    IsMissingRef(r) =>
      /\ r \notin UnitIds
      /\ bpc = "done" => r \notin (DOMAIN report.results) \cup (DOMAIN report.errors)

KeptRefCount ==
  Cardinality({k \in 1..Len(input_path.refs) : ~ IsMissingRef(input_path.refs[k])})

NoDirRef == \A r \in InputRefs : ~ (~ IsUrl(r) /\ IsDir(r))

\* C4 as stated: a missing reference is dropped and not counted, and every URL
\* and every existing plain file is a unit under the name it was given.
C4_PassThroughUnchanged ==
  Started =>
    /\ MissingRefsDropped
    /\ NoDirRef => Len(image_paths) = KeptRefCount
    /\ \A r \in InputRefs : (IsUrl(r) \/ IsPlainFileRef(r)) => r \in UnitIds

\* C4 amended: a missing reference is dropped and not counted; a URL is a unit
\* unchanged; an existing plain file is a unit under its pathlib-normalised name,
\* which is the name given when that name has no "." and no empty component.
C4_PassThroughNormalised ==
  Started =>
    /\ MissingRefsDropped
    /\ NoDirRef =>
         /\ Len(image_paths) = KeptRefCount
         /\ bpc = "done" => report.statistics.total = KeptRefCount
    /\ \A r \in InputRefs :
         /\ IsUrl(r) => r \in UnitIds
         /\ IsPlainFileRef(r) =>
              /\ PathStr(r) \in UnitIds
              /\ IsNormalised(PathStr(r))
              /\ IsNormalised(r) => r \in UnitIds

\* C4 witness: a returned batch whose input held a missing reference, a URL
\* and a plain file written with a '.' component
C4_Witness ==
  /\ bpc = "done"
  /\ MISSING \in InputRefs
  /\ URL_A \in InputRefs
  /\ FILE_A_DOT \in InputRefs
  /\ image_paths = <<URL_A, PathStr(FILE_A_DOT)>>
  /\ report.statistics.total = 2

\* the text C5 describes: "Page k:" and the response to page k, for k = 1..n
RECURSIVE PagesInOrder(_, _)
PagesInOrder(resps, k) ==
  IF k > Len(resps) THEN ""
  ELSE "Page " \o ToString(k) \o ":\n" \o resps[k]
       \o (IF k < Len(resps) THEN "\n" \o PagesInOrder(resps, k + 1) ELSE "")

IsPdfUnit(i) == LowerEndsWith(unit[i].local_path, ".pdf")

\* C5: a PDF unit whose n pages were all processed returns the n segments
\* "Page 1:" .. "Page n:" in page order, each with the response to that page.
C5_PagesInOrder ==
  \A i \in Units :
    (unit[i].pc = "finished" /\ IsPdfUnit(i) /\ ~ unit[i].failed) =>
      /\ Len(served[i]) = unit[i].page_count
      /\ unit[i].ret = PagesInOrder(served[i], 1)

\* C5 witness: a PDF unit of two pages with different responses finished without
\* failure, after a later unit was already collected
C5_Witness ==
  \E i, j \in Units :
    /\ i < j
    /\ unit[i].pc = "finished" /\ IsPdfUnit(i) /\ ~ unit[i].failed
    /\ unit[i].page_count = 2
    /\ served[i][1] # served[i][2]
    /\ format_type = "json"
    /\ j \in collected /\ i \notin collected

\* C7: when process_image has returned, none of the files it wrote remains.
C7_NoScratchLeft ==
  \A i \in Units :
    unit[i].pc = "finished" =>
      \A f \in created[i] :
        f \in DOMAIN fs => \E j \in Units \ {i} : f \in created[j]

\* a unit that returned a text of the model, asked for as json
ReturnedJson(i) ==
  unit[i].pc = "finished" /\ ~ unit[i].failed /\ format_type = "json"

\* json.dumps(json.loads(text), indent=2) when text parses, else text
BestEffortJson(text) == IF JsonParses(text) THEN JsonPretty[text] ELSE text

\* C13 as stated: with format json, process_image returns the response of the
\* model unmodified when it does not parse as JSON, and its pretty-printed
\* re-serialisation when it does (units that made one request).
C13_RawOrPrettyResponse ==
  \A i \in Units :
    (ReturnedJson(i) /\ Len(served[i]) = 1) =>
      unit[i].ret = BestEffortJson(served[i][1])

\* C13 amended: what is parsed is the response for an image unit, and for a PDF
\* unit the joined text of its page segments; that text is returned unmodified
\* when it does not parse, and pretty-printed when it does.
C13_RawOrPrettyText ==
  \A i \in Units :
    ReturnedJson(i) =>
      IF IsPdfUnit(i)
      THEN unit[i].ret = BestEffortJson(PagesInOrder(served[i], 1))
      ELSE /\ Len(served[i]) = 1
           /\ unit[i].ret = BestEffortJson(served[i][1])

\* C13 witness: asked for json, one image unit got `not json` and returned it,
\* another got a JSON text and returned it pretty-printed
C13_Witness ==
  \E i, j \in Units :
    /\ ReturnedJson(i) /\ ReturnedJson(j)
    /\ ~ IsPdfUnit(i) /\ ~ IsPdfUnit(j)
    /\ served[i] = <<"not json">> /\ unit[i].ret = "not json"
    /\ served[j] = <<"{\"a\": 1}">> /\ unit[j].ret = "{\n  \"a\": 1\n}"

\* the files unit j is about to read or remove at its position
NeededBy(j) ==
  LET u == unit[j] IN
  CASE u.pc = "page_pre" -> {u.image_pages[u.idx + 1]}
    [] u.pc = "page_inf" -> {u.image_pages[u.idx + 1]}
                            \cup (IF preprocess THEN {u.preprocessed_path} ELSE {})
    [] u.pc = "img_pre" -> {u.local_path}
    [] OTHER -> {}

InFlight(j) == unit[j].pc \notin {"queued", "finished"}

\* C18: two units in flight never have a scratch path in common: a path one
\* of them wrote is neither written nor needed by the other.
C18_NoSharedScratch ==
  \A i, j \in Units :
    (i # j /\ InFlight(i) /\ InFlight(j)) =>
      created[i] \cap (created[j] \cup NeededBy(j)) = {}

\* C20: a unit that failed leaves its siblings as they would be without it:
\* after its return every file a sibling in flight is about to use is there.
C20_FailureLeavesSiblings ==
  \A i, j \in Units :
    (i # j /\ unit[i].failed /\ unit[i].pc = "finished" /\ InFlight(j)) =>
      NeededBy(j) \subseteq DOMAIN fs

\* C24: every file that was there before the call is still there with the
\* content it had: the input of a unit, and every other file that is not a
\* scratch file of the call.
C24_PreexistingFilesIntact ==
  \A f \in DOMAIN InitFs : f \in DOMAIN fs /\ fs[f] = InitFs[f]

\* the messages of the exceptions process_image can catch, lines 341-342
FailureReasons ==
  {"Failed to download", "File not found", "Could not convert PDF to images",
   "No such file or directory", "Could not read image", "HTTP error"}

\* C25: a PDF unit that failed at opening, rendering or at any page returns
\* one error reason for the whole document, and nothing of the pages that
\* were answered before the failure.
C25_PdfAllOrNothing ==
  \A i \in Units :
    (IsPdfUnit(i) /\ unit[i].failed /\ unit[i].pc = "finished") =>
      /\ \E r \in FailureReasons : unit[i].ret = ErrorText(r)
      /\ \A k \in 1..Len(served[i]) :
           unit[i].ret \notin {served[i][k], PageSegment(k - 1, served[i][k])}

\* a PDF unit whose first page was answered and that failed afterwards
C25_Witness ==
  \E i \in Units :
    /\ IsPdfUnit(i) /\ unit[i].failed /\ unit[i].pc = "finished"
    /\ Len(served[i]) >= 1 /\ unit[i].page_count = 2
    /\ unit[i].ret = ErrorText("HTTP error")

\* C19: once the units are dispatched, process_batch returns its report.
C19_BatchReturns == (bpc = "running") ~> (bpc = "done")

\* C10: no orchestrator exists with a worker count that is not positive:
\* neither an OCRProcessor nor an ImageProcessor.
C10_CtorRejects ==
  /\ bpc # "new" => max_workers >= 1
  /\ ipc \notin {"new", "ctor_raised"} => ip_max_workers >= 1

(***************************************************************************)
(* ImageProcessor: names are sequences of one-character strings, contents  *)
(* are sequences of bytes                                                  *)
(***************************************************************************)
max_filename_length == 255
min_filename_length == 3
RetryTotal == 3
max_sig_length == 12

\* Retry(status_forcelist=...)
status_forcelist == {429, 500, 502, 503, 504}

\* variant of signature_checks for C16: the PNG signature listed as image/jpeg
signature_checksMut ==
  << [sig |-> <<137, 80, 78, 71, 13, 10, 26, 10>>, mime |-> "image/jpeg"],
     [sig |-> <<255, 216, 255>>, mime |-> "image/jpeg"] >>

\* signature_checks, in order: signature, media type
signature_checks ==
  << [sig |-> <<255, 216, 255>>, mime |-> "image/jpeg"],
     [sig |-> <<137, 80, 78, 71, 13, 10, 26, 10>>, mime |-> "image/png"],
     [sig |-> <<71, 73, 70, 56, 55, 97>>, mime |-> "image/gif"],
     [sig |-> <<71, 73, 70, 56, 57, 97>>, mime |-> "image/gif"],
     [sig |-> <<82, 73, 70, 70, 46, 46, 46, 46, 87, 69, 66, 80>>, mime |-> "image/webp"],
     [sig |-> <<66, 77>>, mime |-> "image/bmp"],
     [sig |-> <<73, 73, 42, 0>>, mime |-> "image/tiff"],
     [sig |-> <<77, 77, 0, 42>>, mime |-> "image/tiff"] >>

\* mime_map, in order: these patterns are literal, so pattern.match is equality
mime_map ==
  << [pattern |-> "image/jpeg", ext |-> <<"j", "p", "g">>],
     [pattern |-> "image/png", ext |-> <<"p", "n", "g">>],
     [pattern |-> "image/gif", ext |-> <<"g", "i", "f">>],
     [pattern |-> "image/webp", ext |-> <<"w", "e", "b", "p">>],
     [pattern |-> "image/bmp", ext |-> <<"b", "m", "p">>],
     [pattern |-> "image/tiff", ext |-> <<"t", "i", "f", "f">>],
     [pattern |-> "application/octet-stream", ext |-> <<"b", "i", "n">>] >>

\* variant of StartsWith for C15: a buffer that is the beginning of sig matches too
StartsWithMut(content, sig) ==
  LET n == IF Len(content) < Len(sig) THEN Len(content) ELSE Len(sig)
  IN SubSeq(content, 1, n) = SubSeq(sig, 1, n)

\* bytes.startswith
StartsWith(content, sig) ==
  Len(content) >= Len(sig) /\ SubSeq(content, 1, Len(sig)) = sig

NoMime == [mime |-> NoneVal, ext |-> <<>>]

RECURSIVE ExtOfMime(_, _)
ExtOfMime(mime, k) ==
  IF k > Len(mime_map) THEN <<"b", "i", "n">>
  ELSE IF mime_map[k].pattern = mime THEN mime_map[k].ext
  ELSE ExtOfMime(mime, k + 1)

RECURSIVE DetectFrom(_, _)
DetectFrom(content, k) ==
  IF k > Len(signature_checks) THEN NoMime
  ELSE IF StartsWith(content, signature_checks[k].sig)
       THEN [mime |-> signature_checks[k].mime,
             ext |-> ExtOfMime(signature_checks[k].mime, 1)]
  ELSE DetectFrom(content, k + 1)

\* ImageProcessor._detect_mime_type
detect_mime_type(content) == DetectFrom(content, 1)

NoResult == [ok |-> FALSE, content |-> <<>>, ext |-> <<>>]

\* variant of EarlyCheckDue for C23: the signature is never checked early
EarlyCheckNever(content) == FALSE

\* variant of EarlyCheckDue for C26: the signature is checked after every chunk
EarlyCheckAlways(content) == TRUE

\* line 167: the buffer is long enough for the early check
EarlyCheckDue(content) == Len(content) >= max_sig_length

\* _fetch_image lines 163-178: the chunks are appended one by one; once
\* max_sig_length bytes are there every chunk is followed by a validation
RECURSIVE StreamLoop(_, _)
StreamLoop(content, chunks) ==
  IF chunks = <<>>
  THEN IF detect_mime_type(content).mime = NoneVal THEN NoResult
       ELSE [ok |-> TRUE, content |-> content, ext |-> detect_mime_type(content).ext]
  ELSE IF Head(chunks) = <<>> THEN StreamLoop(content, Tail(chunks))
  ELSE LET c == content \o Head(chunks) IN
       IF EarlyCheckDue(c) /\ detect_mime_type(c).mime = NoneVal
       THEN NoResult
       ELSE StreamLoop(c, Tail(chunks))

\* the bytes of a sequence of chunks
RECURSIVE JoinChunks(_)
JoinChunks(chunks) ==
  IF chunks = <<>> THEN <<>> ELSE Head(chunks) \o JoinChunks(Tail(chunks))

\* bodies a host may send
PNG_BODY  == <<137, 80, 78, 71, 13, 10, 26, 10, 0, 0, 0, 13>>
JPEG_BODY == <<255, 216, 255, 224>>
HTML_BODY == <<60, 104, 116, 109, 108, 62, 60, 98, 111, 100, 121, 62>>
Bodies == {PNG_BODY, JPEG_BODY, HTML_BODY, <<>>}

\* the ways response.iter_content may cut a body: whole, or in two chunks
Chunkings(body) ==
  {<<body>>} \cup {<<SubSeq(body, 1, k), SubSeq(body, k + 1, Len(body))>> :
                     k \in 1..(Len(body) - 1)}

\* status codes a host may answer with
Statuses == {200, 404, 503}

\* urllib3 Retry: a status of status_forcelist is retried
\* variant of IsRetryStatus for C9: every error status is asked again
IsRetryStatusMut(st) == st >= 400
IsRetryStatus(st) == st \in status_forcelist

(***************************************************************************)
(* File names                                                              *)
(***************************************************************************)
Min(a, b) == IF a < b THEN a ELSE b
Max(a, b) == IF a > b THEN a ELSE b

\* variant of SliceTo for C12: nothing is cut
SliceToMut(s, n) == s

\* s[:n] of Python: a negative n counts from the end
SliceTo(s, n) ==
  IF n >= 0 THEN SubSeq(s, 1, Min(n, Len(s)))
  ELSE SubSeq(s, 1, Max(0, Len(s) + n))

\* percent escapes urllib.parse.unquote decodes (those the model's names use)
PercentTable ==
  (<<"2", "F">> :> "/") @@ (<<"2", "f">> :> "/") @@ (<<"2", "0">> :> " ")
  @@ (<<"2", "E">> :> ".") @@ (<<"5", "C">> :> "\\")

\* the positions of s, in order
Positions(s) == [k \in 1..Len(s) |-> k]

\* urllib.parse.unquote: every "%XY" of the table becomes its character (the two
\* digits of an escape are never a "%", so escapes cannot overlap)
unquote(s) ==
  LET IsEscape(k) == /\ k >= 1 /\ k + 2 <= Len(s)
                     /\ s[k] = "%"
                     /\ <<s[k + 1], s[k + 2]>> \in DOMAIN PercentTable
      kept == SelectSeq(Positions(s), LAMBDA k : ~ IsEscape(k - 1) /\ ~ IsEscape(k - 2))
  IN [j \in 1..Len(kept) |->
        IF IsEscape(kept[j]) THEN PercentTable[<<s[kept[j] + 1], s[kept[j] + 2]>>]
        ELSE s[kept[j]]]

HostileChars == {"\\", "/", "*", "?", ":", "\"", "<", ">", "|"}
WhitespaceChars == {" ", "\t", "\n"}

\* re.sub(r'[\\/*?:"<>|]', "_", s)
ReplaceHostile(s) == [k \in 1..Len(s) |-> IF s[k] \in HostileChars THEN "_" ELSE s[k]]

\* re.sub(r"\s+", "_", s): of every run of white space one "_" is left
CollapseWhitespace(s) ==
  LET kept == SelectSeq(Positions(s),
                        LAMBDA k : s[k] \in WhitespaceChars =>
                                     (k = 1 \/ s[k - 1] \notin WhitespaceChars))
  IN [j \in 1..Len(kept) |-> IF s[kept[j]] \in WhitespaceChars THEN "_" ELSE s[kept[j]]]

\* str.rstrip("."): s up to its last character that is not a dot
RStripDots(s) ==
  LET others == {k \in 1..Len(s) : s[k] # "."}
  IN IF others = {} THEN <<>>
     ELSE SubSeq(s, 1, CHOOSE k \in others : \A m \in others : m <= k)

\* os.path.splitext of a name without separators: [base, ext]
splitext(name) ==
  LET dots == {k \in 1..Len(name) : name[k] = "."}
      last == IF dots = {} THEN 0 ELSE CHOOSE k \in dots : \A m \in dots : m <= k
  IN IF last > 0 /\ \E k \in 1..(last - 1) : name[k] # "."
     THEN [base |-> SubSeq(name, 1, last - 1), ext |-> SubSeq(name, last, Len(name))]
     ELSE [base |-> name, ext |-> <<>>]

\* ImageProcessor._sanitize_filename; rnd is the 8 hex digits drawn for an empty name
sanitize_filename(filename, rnd) ==
  LET cleaned == RStripDots(CollapseWhitespace(ReplaceHostile(unquote(filename))))
      parts == splitext(cleaned)
      base == SliceTo(parts.base, max_filename_length - Len(parts.ext) - 1)
  IN IF cleaned = <<>>
     THEN <<"u", "n", "n", "a", "m", "e", "d", "_">> \o rnd
     ELSE SliceTo(base \o parts.ext, max_filename_length)

\* os.path.basename
basename(path) ==
  LET seps == {k \in 1..Len(path) : path[k] = "/"}
      last == IF seps = {} THEN 0 ELSE CHOOSE k \in seps : \A m \in seps : m <= k
  IN SubSeq(path, last + 1, Len(path))

\* netloc.split(".", 1)[0]
BeforeFirstDot(s) ==
  LET dots == {k \in 1..Len(s) : s[k] = "."}
      first == IF dots = {} THEN Len(s) + 1 ELSE CHOOSE k \in dots : \A m \in dots : k <= m
  IN SubSeq(s, 1, first - 1)

\* ImageProcessor._get_filename_from_url, on the parsed URL
get_filename_from_url(url, rnd) ==
  LET path == IF url.path = <<>> \/ url.path[Len(url.path)] = "/"
              THEN BeforeFirstDot(url.netloc) \o <<".", "b", "i", "n">>
              ELSE url.path
  IN sanitize_filename(basename(path), rnd)

LowerChar(c) ==
  CASE c = "P" -> "p" [] c = "N" -> "n" [] c = "G" -> "g" [] c = "J" -> "j"
    [] OTHER -> c

\* str.lstrip(".")
RECURSIVE LStripDots(_)
LStripDots(s) == IF s # <<>> /\ s[1] = "." THEN LStripDots(Tail(s)) ELSE s

SafeBaseChars ==
  {"a", "b", "c", "d", "e", "f", "g", "h", "i", "j", "k", "l", "m", "n", "o", "p",
   "q", "r", "s", "t", "u", "v", "w", "x", "y", "z",
   "A", "B", "C", "D", "E", "F", "G", "H", "I", "J", "K", "L", "M", "N", "O", "P",
   "Q", "R", "S", "T", "U", "V", "W", "X", "Y", "Z",
   "0", "1", "2", "3", "4", "5", "6", "7", "8", "9", "_", "-"}

\* the session's scratch directory, self.temp_dir.name
TempDirName == <<"$TMP">>

\* ImageProcessor._generate_safe_path; unique_id is the 6 hex digits drawn
generate_safe_path(base_name, mime_ext, unique_id) ==
  LET parts == splitext(base_name)
      original_ext == LStripDots([k \in 1..Len(parts.ext) |-> LowerChar(parts.ext[k])])
      ext1 == IF mime_ext # <<>> THEN mime_ext ELSE original_ext
      final_ext == IF ext1 # <<>> THEN ext1 ELSE <<"b", "i", "n">>
      base0 == IF Len(parts.base) >= min_filename_length THEN parts.base
               ELSE <<"f", "i", "l", "e">>
      safe_base == [k \in 1..Len(base0) |->
                      IF base0[k] \in SafeBaseChars THEN base0[k] ELSE "_"]
  IN TempDirName \o <<"/">> \o safe_base \o <<"_">> \o unique_id \o <<".">> \o final_ext

\* values of hashlib.md5(os.urandom(64)).hexdigest()[:6]
UniqueIds == {<<"0", "0", "a", "1", "f", "3">>, <<"7", "b", "c", "0", "d", "e">>}

\* values of hashlib.md5(os.urandom(128)).hexdigest()[:8]
UnnamedIds == {<<"d", "e", "a", "d", "b", "e", "e", "f">>}

(***************************************************************************)
(* ImageProcessor.__init__, process_urls, _fetch_image                     *)
(***************************************************************************)
U_A1   == [netloc |-> <<"h", "1">>, path |-> <<"/", "a", ".", "p", "n", "g">>]
U_A2   == [netloc |-> <<"h", "2">>, path |-> <<"/", "a", ".", "p", "n", "g">>]
U_ROOT == [netloc |-> <<"c", "d", "n", ".", "x">>, path |-> <<"/">>]

UrlLists == {<<>>, <<U_A1>>, <<U_A1, U_A2>>, <<U_A1, U_A1>>, <<U_ROOT, U_A2>>}

Timeouts == {0, 15}

Fetches == 1..Len(urls)

Fetching == {j \in Fetches : fetch[j].pc = "requesting"}

NewFetch == [pc |-> "queued", statuses |-> <<>>, body |-> <<>>, result |-> NoResult,
             raised |-> FALSE]

NotHandled == [kind |-> "none", path |-> <<>>]

\* lines 24-31: both numbers are checked before anything is stored
ImageProcessor_init(mw, t, kt) ==
  /\ ipc = "new"
  /\ IF mw <= 0 \/ t <= 0
     THEN /\ ipc' = "ctor_raised"
          /\ UNCHANGED <<ip_max_workers, timeout, keep_temp>>
     ELSE /\ ipc' = "constructed"
          /\ ip_max_workers' = mw
          /\ timeout' = t
          /\ keep_temp' = kt
  /\ UNCHANGED <<urls, fetch, handled, url_results, temp_dir, wrote, bvars, pvars>>

\* lines 185-189: the pool, one future per element of urls
ProcessUrls_Start(us) ==
  /\ ipc = "constructed"
  /\ ipc' = "running"
  /\ urls' = us
  /\ fetch' = [i \in 1..Len(us) |-> NewFetch]
  /\ wrote' = [i \in 1..Len(us) |-> NotHandled]
  /\ handled' = {}
  /\ url_results' = EmptyMap
  /\ UNCHANGED <<ip_max_workers, timeout, keep_temp, temp_dir, bvars, pvars>>

\* the retries of the mounted adapter are used up after RetryTotal of them
RetriesExhausted(statuses) == Len(statuses) > RetryTotal

\* _fetch_image lines 154-181 for one answer of the host: a status of
\* status_forcelist is asked for again until the retries are used up
\* (RetryError, a RequestException: None); another status >= 400 raises in
\* raise_for_status (None); otherwise the body is streamed and validated
FetchOnAnswer(f, st, chunks, body) ==
  LET hist == Append(f.statuses, st) IN
  IF IsRetryStatus(st)
  THEN IF RetriesExhausted(hist)
       THEN [f EXCEPT !.statuses = hist, !.pc = "finished"]
       ELSE [f EXCEPT !.statuses = hist, !.pc = "requesting"]
  ELSE IF st >= 400
       THEN [f EXCEPT !.statuses = hist, !.pc = "finished"]
  ELSE [f EXCEPT !.statuses = hist, !.pc = "finished", !.body = body,
                 !.result = StreamLoop(<<>>, chunks)]

\* a worker takes the next queued call and sends the first request
Fetch_Begin(i) ==
  /\ ipc = "running"
  /\ i \in Fetches
  /\ fetch[i].pc = "queued"
  /\ \A j \in Fetches : j < i => fetch[j].pc # "queued"
  /\ Cardinality(Fetching) < ip_max_workers
  /\ \E st \in Statuses, body \in Bodies :
       \E chunks \in Chunkings(body) :
         fetch' = [fetch EXCEPT ![i] = FetchOnAnswer(@, st, chunks, body)]
  /\ UNCHANGED <<ipc, ip_max_workers, timeout, keep_temp, urls, handled, url_results,
                 temp_dir, wrote, bvars, pvars>>

\* the request is sent again
Fetch_Retry(i) ==
  /\ ipc = "running"
  /\ i \in Fetches
  /\ fetch[i].pc = "requesting"
  /\ \E st \in Statuses, body \in Bodies :
       \E chunks \in Chunkings(body) :
         fetch' = [fetch EXCEPT ![i] = FetchOnAnswer(@, st, chunks, body)]
  /\ UNCHANGED <<ipc, ip_max_workers, timeout, keep_temp, urls, handled, url_results,
                 temp_dir, wrote, bvars, pvars>>

\* what open(filepath, "wb") and f.write may do
WriteOutcomes == {"ok", "open_failed", "write_failed"}

\* lines 201-202: the file after the write; a failed write leaves what was opened
FileAfterWrite(td, filepath, content, wr) ==
  CASE wr = "ok" -> Put(td, filepath, content)
    [] wr = "write_failed" -> Put(td, filepath, <<>>)
    [] OTHER -> td

\* lines 200-206: the URL is mapped after the write, not when IOError was raised
\* variant of MappingAfterWrite for C6: the URL is mapped whatever the write did
MappingAfterWriteMut(m, url, filepath, wr) == Put(m, url, filepath)
MappingAfterWrite(m, url, filepath, wr) ==
  IF wr = "ok" THEN Put(m, url, filepath) ELSE m

\* lines 191-208: one future handed out by as_completed
UrlCollect(i) ==
  /\ ipc = "running"
  /\ i \in Fetches \ handled
  /\ fetch[i].pc = "finished"
  /\ handled' = handled \cup {i}
  /\ IF ~ fetch[i].result.ok
     THEN /\ wrote' = [wrote EXCEPT ![i] = [kind |-> "dropped", path |-> <<>>]]
          /\ UNCHANGED <<url_results, temp_dir>>
     ELSE \E rnd \in UnnamedIds, unique_id \in UniqueIds, wr \in WriteOutcomes :
            LET filename == get_filename_from_url(urls[i], rnd)
                filepath == generate_safe_path(filename, fetch[i].result.ext, unique_id)
            IN /\ temp_dir' = FileAfterWrite(temp_dir, filepath,
                                             fetch[i].result.content, wr)
               /\ url_results' = MappingAfterWrite(url_results, urls[i], filepath, wr)
               /\ wrote' = [wrote EXCEPT ![i] = [kind |-> wr, path |-> filepath]]
  /\ UNCHANGED <<ipc, ip_max_workers, timeout, keep_temp, urls, fetch, bvars, pvars>>

\* line 209
ProcessUrls_Return ==
  /\ ipc = "running"
  /\ handled = Fetches
  /\ ipc' = "done"
  /\ UNCHANGED <<ip_max_workers, timeout, keep_temp, urls, fetch, handled, url_results,
                 temp_dir, wrote, bvars, pvars>>

\* variant of ImageProcessor_exit for C17: the directory is never cleaned
ImageProcessor_exitMut ==
  /\ ipc \in {"constructed", "done"}
  /\ ipc' = "exited"
  /\ UNCHANGED <<ip_max_workers, timeout, keep_temp, urls, fetch, handled,
                 url_results, temp_dir, wrote, bvars, pvars>>

\* lines 83-86: __exit__, when the with block of the caller is left;
\* TemporaryDirectory.cleanup removes the directory and all it holds
ImageProcessor_exit ==
  /\ ipc \in {"constructed", "done"}
  /\ ipc' = "exited"
  /\ temp_dir' = IF ~ keep_temp THEN EmptyMap ELSE temp_dir
  /\ UNCHANGED <<ip_max_workers, timeout, keep_temp, urls, fetch, handled,
                 url_results, wrote, bvars, pvars>>

UrlsInit ==
  /\ ipc = "new"
  /\ keep_temp = NoneVal
  /\ ip_max_workers = NoneVal
  /\ timeout = NoneVal
  /\ urls = <<>>
  /\ fetch = <<>>
  /\ handled = {}
  /\ url_results = EmptyMap
  /\ temp_dir = EmptyMap
  /\ wrote = <<>>

NextUrls ==
  \/ \E mw \in WorkerCounts, t \in Timeouts, kt \in BOOLEAN :
       ImageProcessor_init(mw, t, kt)
  \/ \E us \in UrlLists : ProcessUrls_Start(us)
  \/ \E i \in Fetches : Fetch_Begin(i)
  \/ \E i \in Fetches : Fetch_Retry(i)
  \/ \E i \in Fetches : UrlCollect(i)
  \/ ProcessUrls_Return
  \/ ImageProcessor_exit

\* a call that has not returned, a call that returned val
Pending == [done |-> FALSE, val |-> NoneVal]
Returned(val) == [done |-> TRUE, val |-> val]

\* no call of a stateless function is under way
NoCall ==
  /\ fn = "none"
  /\ fn_arg = NoneVal
  /\ fn_ret = Pending

Init == BatchInit /\ UrlsInit /\ NoCall

Spec == Init /\ [][Next]_vars

\* the caller and the workers of the pool keep being scheduled
SpecLive == Init /\ [][Next]_vars /\ WF_vars(Next)

SpecUrls == Init /\ [][NextUrls]_vars

\* one of the two orchestrators is used
NextEither ==
  \/ ipc = "new" /\ Next
  \/ bpc = "new" /\ NextUrls

SpecEither == Init /\ [][NextEither]_vars

\* C21: the shared maps have one writer at a time: results and errors of
\* process_batch, and the mapping of process_urls, change only in a step of the
\* collecting loop that handles exactly one completed future, never in a step
\* of a worker.
C21_SingleWriter ==
  [][/\ (results' # results \/ errors' # errors) =>
          /\ unit' = unit
          /\ \E i \in Units \ collected : collected' = collected \cup {i}
     /\ (url_results' # url_results) =>
          /\ fetch' = fetch
          /\ \E i \in Fetches \ handled : handled' = handled \cup {i}]_vars

\* C21 witness: the collecting loop has stored the result of one unit while a
\* worker is still running another
C21_Witness ==
  /\ bpc = "running"
  /\ Cardinality(DOMAIN results) = 1
  /\ Cardinality(collected) = 1
  /\ \E j \in Units : unit[j].pc \notin {"queued", "finished", "awaiting_response"}

(***************************************************************************)
(* _detect_mime_type called on its own, over buffers of every shape        *)
(***************************************************************************)
Bytes == 0..255

Signatures == {signature_checks[k].sig : k \in 1..Len(signature_checks)}

\* what may follow a signature: nothing, image data, another type's signature
Tails == {<<>>, <<0>>, <<0, 0, 0, 13, 73, 72, 68, 82>>,
          <<255, 216, 255>>, <<137, 80, 78, 71, 13, 10, 26, 10>>}

\* the four size bytes of a RIFF container
RiffSizes == {<<46, 46, 46, 46>>, <<36, 0, 0, 0>>, <<255, 255, 255, 127>>}

RiffWebp(size) == <<82, 73, 70, 70>> \o size \o <<87, 69, 66, 80>>

Buffers ==
  {sig \o t : sig \in Signatures, t \in Tails}
  \cup {RiffWebp(size) \o t : size \in RiffSizes, t \in Tails}
  \cup UNION {{SubSeq(sig, 1, n) : n \in 0..(Len(sig) - 1)} : sig \in Signatures}
  \cup {<<b>> : b \in Bytes}
  \cup {HTML_BODY}

\* the ways response.iter_content may cut a body in three chunks, empty ones
\* among them
Splits(body) ==
  {<<SubSeq(body, 1, a), SubSeq(body, a + 1, b), SubSeq(body, b + 1, Len(body))>> :
     a \in 0..Len(body), b \in 0..Len(body)} \ {<<>>}

\* line 121: the call
Call_detect_mime_type ==
  /\ fn = "_detect_mime_type"
  /\ ~ fn_ret.done
  /\ fn_ret' = Returned(detect_mime_type(fn_arg))
  /\ UNCHANGED <<fn, fn_arg, bvars, ivars>>

DetectInit ==
  /\ BatchInit
  /\ UrlsInit
  /\ fn = "_detect_mime_type"
  /\ fn_arg \in Buffers
  /\ fn_ret = Pending

NextDetect ==
  \/ Call_detect_mime_type

SpecDetect == DetectInit /\ [][NextDetect]_vars

(***************************************************************************)
(* The streaming loop of _fetch_image, one chunk at a time                 *)
(***************************************************************************)
\* a page of HTML longer than every signature
HTML_PAGE == HTML_BODY \o <<60, 112, 62, 104, 105, 60, 47, 112, 62>>

\* the bodies streamed: the buffers of two bytes and more, "B", the empty body,
\* the page of HTML
StreamBodies == {b \in Buffers : Len(b) >= 2} \cup {<<66>>, <<>>, HTML_PAGE}

StreamArgs ==
  UNION {{[body |-> b, chunks |-> c] : c \in {s \in Splits(b) : JoinChunks(s) = b}} :
           b \in StreamBodies}

\* the loop before its first chunk
StreamStart == [content |-> <<>>, read |-> 0, result |-> NoResult]

\* lines 164-172: the next chunk; an empty chunk is skipped, another one is
\* appended and, when the early check is due and finds no type, the fetch
\* returns None
Stream_ReadChunk ==
  /\ fn = "_fetch_image"
  /\ ~ fn_ret.done
  /\ fn_ret.val.read < Len(fn_arg.chunks)
  /\ LET v == fn_ret.val
         chunk == fn_arg.chunks[v.read + 1]
         c == v.content \o chunk
     IN fn_ret' =
          IF chunk = <<>> THEN [fn_ret EXCEPT !.val.read = @ + 1]
          ELSE IF EarlyCheckDue(c) /\ detect_mime_type(c).mime = NoneVal
               THEN Returned([content |-> c, read |-> v.read + 1, result |-> NoResult])
          ELSE [fn_ret EXCEPT !.val.read = @ + 1, !.val.content = c]
  /\ UNCHANGED <<fn, fn_arg, bvars, ivars>>

\* lines 173-178: the stream has ended; the final validation
Stream_Finish ==
  /\ fn = "_fetch_image"
  /\ ~ fn_ret.done
  /\ fn_ret.val.read = Len(fn_arg.chunks)
  /\ LET v == fn_ret.val
         found == detect_mime_type(v.content)
     IN fn_ret' = Returned([v EXCEPT !.result =
                     IF found.mime = NoneVal THEN NoResult
                     ELSE [ok |-> TRUE, content |-> v.content, ext |-> found.ext]])
  /\ UNCHANGED <<fn, fn_arg, bvars, ivars>>

StreamInit ==
  /\ BatchInit
  /\ UrlsInit
  /\ fn = "_fetch_image"
  /\ fn_arg \in StreamArgs
  /\ fn_ret = [done |-> FALSE, val |-> StreamStart]

NextStream ==
  \/ Stream_ReadChunk
  \/ Stream_Finish

SpecStream == StreamInit /\ [][NextStream]_vars

Streaming == fn = "_fetch_image" /\ ~ fn_ret.done
Streamed == fn = "_fetch_image" /\ fn_ret.done

Unrecognised(content) == detect_mime_type(content).mime = NoneVal

\* C23: a fetch that still reads never holds a buffer of max_sig_length bytes
\* or more in which no signature is found; the fetch that met one has returned a
\* failure at that chunk and has read none of the later chunks.
C23_AbortsAtOnce ==
  /\ Streaming =>
       ~ (Len(fn_ret.val.content) >= max_sig_length /\ Unrecognised(fn_ret.val.content))
  /\ (Streamed /\ Len(fn_ret.val.content) >= max_sig_length
               /\ Unrecognised(fn_ret.val.content)) =>
       /\ ~ fn_ret.val.result.ok
       /\ fn_ret.val.content = JoinChunks(SubSeq(fn_arg.chunks, 1, fn_ret.val.read))
       /\ Len(fn_ret.val.content) - Len(fn_arg.chunks[fn_ret.val.read]) < max_sig_length

\* C23 witness: a fetch gave up on a page of HTML with chunks left to read
C23_Witness ==
  /\ Streamed
  /\ fn_arg.body = HTML_PAGE
  /\ fn_ret.val.read < Len(fn_arg.chunks)
  /\ fn_arg.chunks[Len(fn_arg.chunks)] # <<>>
  /\ ~ fn_ret.val.result.ok

\* C26: for every body and every way of cutting it, _fetch_image succeeds
\* exactly when the whole body is classified, and then returns the whole body;
\* the loop taken chunk by chunk returns what StreamLoop returns.
C26_EarlyEqualsFinal ==
  Streamed =>
    /\ fn_ret.val.result.ok <=> ~ Unrecognised(fn_arg.body)
    /\ fn_ret.val.result.ok =>
         /\ fn_ret.val.result.content = fn_arg.body
         /\ fn_ret.val.result.ext = detect_mime_type(fn_arg.body).ext
    /\ fn_ret.val.result = StreamLoop(<<>>, fn_arg.chunks)

\* C26 witness: a PNG body that came in three chunks, the first shorter than its
\* signature, was accepted
C26_Witness ==
  /\ Streamed
  /\ fn_arg.chunks = <<<<137, 80, 78>>, <<71, 13, 10, 26, 10>>, <<0>>>>
  /\ fn_ret.val.result.ok
  /\ fn_ret.val.read = 3

(***************************************************************************)
(* Claims about _detect_mime_type                                          *)
(***************************************************************************)
Detected == fn = "_detect_mime_type" /\ fn_ret.done

\* the supported types as C11 lists them: how a buffer of the type begins, its
\* media type and its extension
Begins(content, sig) ==
  Len(content) >= Len(sig) /\ \A k \in 1..Len(sig) : content[k] = sig[k]

IsJpegSigned(c) == Begins(c, <<255, 216, 255>>)
IsPngSigned(c) == Begins(c, <<137, 80, 78, 71, 13, 10, 26, 10>>)
IsGifSigned(c) == Begins(c, <<71, 73, 70, 56, 55, 97>>) \/ Begins(c, <<71, 73, 70, 56, 57, 97>>)
IsBmpSigned(c) == Begins(c, <<66, 77>>)
IsTiffSigned(c) == Begins(c, <<73, 73, 42, 0>>) \/ Begins(c, <<77, 77, 0, 42>>)
IsWebpSigned(c) ==
  Len(c) >= 12 /\ SubSeq(c, 1, 4) = <<82, 73, 70, 70>> /\ SubSeq(c, 9, 12) = <<87, 69, 66, 80>>

Classified(mime, ext) == fn_ret.val = [mime |-> mime, ext |-> ext]

\* C11: every buffer that begins with the signature of a supported type is
\* classified with that media type and extension; a WEBP buffer is RIFF, any
\* four size bytes, WEBP.
C11_SignaturesClassified ==
  Detected =>
    /\ IsJpegSigned(fn_arg) => Classified("image/jpeg", <<"j", "p", "g">>)
    /\ IsPngSigned(fn_arg) => Classified("image/png", <<"p", "n", "g">>)
    /\ IsGifSigned(fn_arg) => Classified("image/gif", <<"g", "i", "f">>)
    /\ IsBmpSigned(fn_arg) => Classified("image/bmp", <<"b", "m", "p">>)
    /\ IsTiffSigned(fn_arg) => Classified("image/tiff", <<"t", "i", "f", "f">>)
    /\ IsWebpSigned(fn_arg) => Classified("image/webp", <<"w", "e", "b", "p">>)

\* the length of the shortest signature of signature_checks
ShortestSignature ==
  CHOOSE n \in {Len(sig) : sig \in Signatures} :
    \A sig \in Signatures : n <= Len(sig)

\* C15: a buffer shorter than the shortest known signature is classified as
\* (None, None).
C15_ShortBufferUnclassified ==
  (Detected /\ Len(fn_arg) < ShortestSignature) => fn_ret.val = NoMime

\* C15 witness: the one-byte buffer "B", the beginning of the BMP signature, has
\* been classified
C15_Witness ==
  Detected /\ fn_arg = <<66>> /\ Len(fn_arg) < ShortestSignature

\* C16: a PNG-signed buffer is never classified JPEG and a JPEG-signed buffer
\* is never classified PNG.
C16_NoCrossClassification ==
  Detected =>
    /\ IsPngSigned(fn_arg) => fn_ret.val.mime # "image/jpeg"
    /\ IsJpegSigned(fn_arg) => fn_ret.val.mime # "image/png"

\* C16 witness: a PNG-signed buffer that goes on with the JPEG signature has
\* been classified
C16_Witness ==
  /\ Detected
  /\ fn_arg = <<137, 80, 78, 71, 13, 10, 26, 10>> \o <<255, 216, 255>>
  /\ fn_ret.val.mime = "image/png"

(***************************************************************************)
(* _sanitize_filename called on its own                                    *)
(***************************************************************************)
\* a run of max_filename_length + 1 name characters
LongRun == [k \in 1..(max_filename_length + 1) |-> "x"]

\* the pieces file names are put together from: nothing, separators, dots,
\* percent-encoded separators and dots, white space, name characters, a long run
Pieces ==
  {<<>>, <<"/">>, <<"\\">>, <<".">>, <<".", ".">>, <<"%", "2", "F">>,
   <<"%", "5", "C">>, <<"%", "2", "E">>, <<" ">>, <<"a">>, <<"a", ".", "p", "n", "g">>,
   LongRun}

\* names of three pieces
Filenames == {p \o q \o r : p \in Pieces, q \in Pieces, r \in Pieces}

\* line 88: the call
Call_sanitize_filename ==
  /\ fn = "_sanitize_filename"
  /\ ~ fn_ret.done
  /\ \E rnd \in UnnamedIds : fn_ret' = Returned(sanitize_filename(fn_arg, rnd))
  /\ UNCHANGED <<fn, fn_arg, bvars, ivars>>

SanitizeInit ==
  /\ BatchInit
  /\ UrlsInit
  /\ fn = "_sanitize_filename"
  /\ fn_arg \in Filenames
  /\ fn_ret = Pending

NextSanitize ==
  \/ Call_sanitize_filename

SpecSanitize == SanitizeInit /\ [][NextSanitize]_vars

Sanitized == fn = "_sanitize_filename" /\ fn_ret.done

PathSeparators == {"/", "\\"}

\* C12: for every input the sanitizer returns a non-empty string of at most
\* max_filename_length characters with no path separator in it.
C12_SanitizedNameIsSafe ==
  Sanitized =>
    /\ Len(fn_ret.val) >= 1
    /\ Len(fn_ret.val) <= max_filename_length
    /\ \A k \in 1..Len(fn_ret.val) : fn_ret.val[k] \notin PathSeparators

\* C12 witness: a name of a percent-encoded separator and an extension longer
\* than max_filename_length has been sanitized
C12_Witness ==
  /\ Sanitized
  /\ fn_arg = <<"%", "2", "F">> \o <<".">> \o LongRun
  /\ Len(fn_ret.val) = max_filename_length
  /\ fn_ret.val[1] = "."

(***************************************************************************)
(* The prompt process_image sends: lines 170-224 for a page of a PDF,      *)
(* lines 267-319 for an image.  A prompt is a sequence of strings: the     *)
(* characters of the caller's prompt, or the parts of a template (its      *)
(* first line, the language put in).                                       *)
(***************************************************************************)
\* custom_prompt = None
NoPrompt == [given |-> FALSE, text |-> <<>>]
GivenPrompt(text) == [given |-> TRUE, text |-> text]

\* str.strip()
Strip(s) ==
  LET inked == {k \in 1..Len(s) : s[k] \notin WhitespaceChars}
  IN IF inked = {} THEN <<>>
     ELSE SubSeq(s, CHOOSE k \in inked : \A m \in inked : k <= m,
                    CHOOSE k \in inked : \A m \in inked : m <= k)

\* `custom_prompt and custom_prompt.strip()`
Truthy(custom_prompt) ==
  custom_prompt.given /\ custom_prompt.text # <<>> /\ Strip(custom_prompt.text) # <<>>

\* the prompts dict of the PDF branch, lines 174-221
page_prompts(language) ==
  [markdown |-> <<"Extract all text content from this image in ", language,
                  " **exactly as it appears**, without modification, summarization, or omission.">>,
   text |-> <<"Extract all visible text from this image in ", language,
              " **without any changes**.">>,
   json |-> <<"Extract all text from this image in ", language,
              " and format it as JSON, **strictly preserving** the structure.">>,
   structured |-> <<"Extract all text from this image in ", language,
                    ", **ensuring complete structural accuracy**:">>,
   key_value |-> <<"Extract all key-value pairs from this image in ", language,
                   " **exactly as they appear**:">>,
   table |-> <<"Extract all tabular data from this image in ", language,
               " **exactly as it appears**, without modification, summarization, or omission.">>]

\* the prompts dict of the image branch, lines 271-317
image_prompts(language) ==
  [markdown |-> <<"Extract all text content from this image in ", language,
                  " **exactly as it appears**, without modification, summarization, or omission.">>,
   text |-> <<"Extract all visible text from this image in ", language,
              " **without any changes**.">>,
   json |-> <<"Extract all text from this image in ", language,
              " and format it as JSON, **strictly preserving** the structure.">>,
   structured |-> <<"Extract all text from this image in ", language,
                    ", **ensuring complete structural accuracy**:">>,
   key_value |-> <<"Extract all key-value pairs from this image in ", language,
                   " **exactly as they appear**:">>,
   table |-> <<"Extract all tabular data from this image in ", language,
               " **exactly as it appears**, without modification, summarization, or omission.">>]

\* dict.get(key, default)
DictGet(d, key, default) == IF key \in DOMAIN d THEN d[key] ELSE default

\* variant of PagePrompt for C14: the caller's prompt is used whenever it is given
PagePromptMut(custom_prompt, fmt, language) ==
  IF custom_prompt.given THEN custom_prompt.text
  ELSE DictGet(page_prompts(language), fmt, page_prompts(language)["text"])

\* lines 170-224: the prompt for a page
PagePrompt(custom_prompt, fmt, language) ==
  IF Truthy(custom_prompt) THEN custom_prompt.text
  ELSE DictGet(page_prompts(language), fmt, page_prompts(language)["text"])

\* lines 267-319: the prompt for an image
ImagePrompt(custom_prompt, fmt, language) ==
  IF Truthy(custom_prompt) THEN custom_prompt.text
  ELSE DictGet(image_prompts(language), fmt, image_prompts(language)["text"])

\* the arguments: no prompt, blank prompts, prompts with ink; the six format
\* identifiers, the "custom" of the docstring and other unknown ones
CustomPrompts ==
  {NoPrompt} \cup
  {GivenPrompt(t) : t \in {<<>>, <<" ">>, <<"\t", "\n", " ">>, <<"q">>,
                           <<" ", "q", " ">>, <<"q", " ", "r", "\n">>}}

FormatIds == {"markdown", "text", "json", "structured", "key_value", "table",
              "custom", "xml", "Markdown", ""}

Languages == {"en", "zh", "English"}

PromptKinds == {"page", "image"}

PromptArgs ==
  [custom_prompt : CustomPrompts, format_type : FormatIds, language : Languages,
   kind : PromptKinds]

Call_PagePrompt ==
  /\ fn = "prompt"
  /\ ~ fn_ret.done
  /\ fn_arg.kind = "page"
  /\ fn_ret' = Returned(PagePrompt(fn_arg.custom_prompt, fn_arg.format_type,
                                   fn_arg.language))
  /\ UNCHANGED <<fn, fn_arg, bvars, ivars>>

Call_ImagePrompt ==
  /\ fn = "prompt"
  /\ ~ fn_ret.done
  /\ fn_arg.kind = "image"
  /\ fn_ret' = Returned(ImagePrompt(fn_arg.custom_prompt, fn_arg.format_type,
                                    fn_arg.language))
  /\ UNCHANGED <<fn, fn_arg, bvars, ivars>>

PromptInit ==
  /\ BatchInit
  /\ UrlsInit
  /\ fn = "prompt"
  /\ fn_arg \in PromptArgs
  /\ fn_ret = Pending

NextPrompt ==
  \/ Call_PagePrompt
  \/ Call_ImagePrompt

SpecPrompt == PromptInit /\ [][NextPrompt]_vars

Prompted == fn = "prompt" /\ fn_ret.done

\* a prompt that is present and not blank
IsNonBlank(custom_prompt) ==
  custom_prompt.given /\ \E k \in 1..Len(custom_prompt.text) :
                           custom_prompt.text[k] \notin {" ", "\t", "\n"}

KnownFormats == {"markdown", "text", "json", "structured", "key_value", "table"}

\* C14: a prompt of the caller that is present and not blank is sent verbatim
\* whatever the format identifier; otherwise the template of the format
\* identifier is sent, the text template for an unknown identifier; the rule
\* is the same for an image and for a page of a PDF.
C14_PromptSelection ==
  Prompted =>
    LET a == fn_arg
        templates == image_prompts(a.language)
    IN IF IsNonBlank(a.custom_prompt)
       THEN fn_ret.val = a.custom_prompt.text
       ELSE IF a.format_type \in KnownFormats
            THEN fn_ret.val = templates[a.format_type]
            ELSE fn_ret.val = templates["text"]

\* C14 witness: for a page of a PDF, a blank prompt of the caller and an
\* unknown format identifier gave the text template
C14_Witness ==
  /\ Prompted
  /\ fn_arg.kind = "page"
  /\ fn_arg.custom_prompt = GivenPrompt(<<"\t", "\n", " ">>)
  /\ fn_arg.format_type = "custom"
  /\ fn_arg.language = "zh"
  /\ fn_ret.val = <<"Extract all visible text from this image in ", "zh",
                    " **without any changes**.">>

(***************************************************************************)
(* Claims about process_urls and _fetch_image                              *)
(***************************************************************************)
FetchFailed(i) == ~ fetch[i].result.ok

Stored(i) == wrote[i].kind = "ok"

Distinct(us) == \A a, b \in 1..Len(us) : a # b => us[a] # us[b]

\* C6: of N URLs of which M fail fetching or validation, the mapping holds
\* exactly N - M entries, all of them URLs that succeeded; every URL is fetched.
C6_ExactlyNMinusM ==
  ipc = "done" =>
    /\ Cardinality(DOMAIN url_results)
         = Len(urls) - Cardinality({i \in Fetches : FetchFailed(i)})
    /\ \A u \in DOMAIN url_results : \E i \in Fetches : urls[i] = u /\ ~ FetchFailed(i)
    /\ \A i \in Fetches : fetch[i].pc = "finished"

\* C6 amended: the mapping holds one entry for each distinct URL of which some
\* fetch succeeded and was written to scratch storage, and no other entry: N - M
\* entries when the N URLs are pairwise distinct and M of them failed fetching,
\* validation or the write. Every URL is fetched and handled, whatever failed.
C6_OneEntryPerStoredUrl ==
  ipc = "done" =>
    /\ DOMAIN url_results = {urls[i] : i \in {j \in Fetches : Stored(j)}}
    /\ \A i \in Fetches : Stored(i) => ~ FetchFailed(i)
    /\ Distinct(urls) =>
         Cardinality(DOMAIN url_results)
           = Len(urls) - Cardinality({i \in Fetches : ~ Stored(i)})
    /\ \A i \in Fetches : fetch[i].pc = "finished" /\ i \in handled

\* C6 witness: a returned call in which one URL was stored and another was not
C6_Witness ==
  /\ ipc = "done"
  /\ Len(urls) = 2
  /\ Distinct(urls)
  /\ FetchFailed(1)
  /\ Stored(2)
  /\ DOMAIN url_results = {urls[2]}

\* C8: no two URLs of the mapping share a local path, and no staged file is
\* written twice.
C8_PathsNeverCollide ==
  /\ \A u, v \in DOMAIN url_results : u # v => url_results[u] # url_results[v]
  /\ \A i, j \in handled :
       (i # j /\ wrote[i].kind = "ok" /\ wrote[j].kind = "ok")
         => wrote[i].path # wrote[j].path

\* C22: a file is in the scratch directory only for a URL whose fetch returned
\* validated content, and a URL that is not in the mapping has left no file
\* there, also when the write itself failed.
C22_NoFileForFailedOutcome ==
  \A i \in handled :
    /\ ~ fetch[i].result.ok => wrote[i].path \notin DOMAIN temp_dir
    /\ (ipc \in {"running", "done"} /\ urls[i] \notin DOMAIN url_results)
         => wrote[i].path \notin DOMAIN temp_dir

HexDigits == {"0", "1", "2", "3", "4", "5", "6", "7", "8", "9",
              "a", "b", "c", "d", "e", "f"}

\* path is <scratch directory>/<base>_<6 hex digits>.<ext>, base and ext not empty
IsStagedName(path) ==
  LET name == SubSeq(path, 3, Len(path))
      dots == {k \in 1..Len(name) : name[k] = "."}
      d == CHOOSE k \in dots : \A m \in dots : m <= k
  IN /\ Len(path) >= 3
     /\ <<path[1]>> = TempDirName /\ path[2] = "/"
     /\ \A k \in 1..Len(name) : name[k] # "/"
     /\ dots # {}
     /\ d < Len(name)
     /\ d >= 9
     /\ name[d - 7] = "_"
     /\ \A k \in (d - 6)..(d - 1) : name[k] \in HexDigits
     /\ \A k \in 1..(d - 8) : name[k] \in SafeBaseChars

\* the futures whose content process_urls wrote to a file
StagedFetches == {i \in handled : wrote[i].kind = "ok"}

\* C17: after the exit of the session no staged file is left when keep_temp is
\* false and every staged file is still there when keep_temp is true; a staged
\* file is named <base>_<6 hex>.<ext> in the scratch directory of the session.
C17_SessionEnd ==
  /\ \A f \in DOMAIN temp_dir : IsStagedName(f)
  /\ \A i \in handled : wrote[i].kind # "none" /\ wrote[i].kind # "dropped"
                            => IsStagedName(wrote[i].path)
  /\ ipc = "exited" =>
       \A i \in StagedFetches :
         IF keep_temp THEN wrote[i].path \in DOMAIN temp_dir
         ELSE wrote[i].path \notin DOMAIN temp_dir

\* C17 witness: a session that staged two files has ended with keep_temp false
C17_Witness ==
  /\ ipc = "exited"
  /\ keep_temp = FALSE
  /\ Cardinality({wrote[i].path : i \in StagedFetches}) = 2
  /\ temp_dir = EmptyMap

PngSignature == <<137, 80, 78, 71, 13, 10, 26, 10>>

MaxRefs == 2

Whitespace == {" "}

\* str.strip()
StripWs(s) ==
  LET keep == {k \in 1..Len(s) : s[k] \notin Whitespace}
  IN IF keep = {} THEN <<>>
     ELSE SubSeq(s, CHOOSE k \in keep : \A m \in keep : k <= m,
                    CHOOSE k \in keep : \A m \in keep : k >= m)

\* str.split(","): the pieces between the commas, nothing else removed
RECURSIVE SplitComma(_)
SplitComma(s) ==
  LET commas == {k \in 1..Len(s) : s[k] = ","}
  IN IF commas = {} THEN <<s>>
     ELSE LET k == CHOOSE c \in commas : \A m \in commas : c <= m
          IN <<SubSeq(s, 1, k - 1)>> \o SplitComma(SubSeq(s, k + 1, Len(s)))

\* sep.join(refs)
RECURSIVE JoinWith(_, _)
JoinWith(refs, sep) ==
  IF refs = <<>> THEN <<>>
  ELSE IF Len(refs) = 1 THEN refs[1]
  ELSE refs[1] \o sep \o JoinWith(Tail(refs), sep)

Pad(s, padded) == IF padded THEN <<" ">> \o s \o <<" ">> ELSE s

\* the `urls` field a client sends for the references refs: one text with
\* the separator sep between them, or the list of them
UrlsText(refs, sep, padded) == Pad(JoinWith(refs, sep), padded)
UrlsList(refs, padded) == [k \in 1..Len(refs) |-> Pad(refs[k], padded)]

\* lines 58-59: isinstance(urls, str)
ParseText(field) == SplitComma(StripWs(field))

\* lines 60-61: isinstance(urls, list)
ParseList(field) == [k \in 1..Len(field) |-> StripWs(field[k])]

\* lines 75-81 and process_batch lines 391-404: the list handed over as
\* input_path and the unit lists process_batch can draw from it
HandOver(parsed) ==
  [input_path |-> parsed,
   image_paths |-> Resolve(InitFs, [isList |-> TRUE, refs |-> parsed], FALSE)]

ExtractText(a) == HandOver(ParseText(UrlsText(a.refs, a.sep, a.padded)))
ExtractList(a) == HandOver(ParseList(UrlsList(a.refs, a.padded)))

ExtractRefs == {URL_A, URL_B, FILE_A, FILE_A_DOT, FILE_D, MISSING, DIR_P}

Separators == {<<",">>, <<",", " ">>}

RefLists == UNION {[1..n -> ExtractRefs] : n \in 1..MaxRefs}

ExtractArgs ==
  [refs : RefLists, sep : Separators, padded : BOOLEAN, form : {"text", "list"}]

Extract_Text ==
  /\ fn = "extract"
  /\ ~ fn_ret.done
  /\ fn_arg.form = "text"
  /\ fn_ret' = Returned(ExtractText(fn_arg))
  /\ UNCHANGED <<fn, fn_arg, bvars, ivars>>

Extract_List ==
  /\ fn = "extract"
  /\ ~ fn_ret.done
  /\ fn_arg.form = "list"
  /\ fn_ret' = Returned(ExtractList(fn_arg))
  /\ UNCHANGED <<fn, fn_arg, bvars, ivars>>

ExtractInit ==
  /\ BatchInit
  /\ UrlsInit
  /\ fn = "extract"
  /\ fn_arg \in ExtractArgs
  /\ fn_ret = Pending

NextExtract ==
  \/ Extract_Text
  \/ Extract_List

SpecExtract == ExtractInit /\ [][NextExtract]_vars

Extracted == fn = "extract" /\ fn_ret.done

\* C27: extract hands process_batch the same list, and process_batch draws the
\* same units from it, whether the references came as one comma-separated
\* text (plain commas or commas followed by a blank) or as a list.
C27_SameUnitList ==
  Extracted => /\ fn_ret.val = ExtractText(fn_arg)
               /\ fn_ret.val = ExtractList(fn_arg)

\* the part of C27 that the code keeps: with plain commas the two forms agree
C27_PlainCommaAgrees ==
  (Extracted /\ fn_arg.sep = <<",">>) =>
     /\ fn_ret.val = ExtractText(fn_arg)
     /\ fn_ret.val = ExtractList(fn_arg)
     /\ fn_ret.val.input_path = fn_arg.refs

====
